---- MODULE Spec2Model ----
(***************************************************************************)
(* State-machine model of dataman/vis/Buffer.py: a typed                   *)
(* [channels x samples] numpy view over a shared ctypes byte array whose   *)
(* first bytes are a BufferHeader.  Several Buffer objects (one per        *)
(* process) may point at the same raw array.                               *)
(*                                                                         *)
(* The code is Python 2 (print statements, dict.values().index, integer    *)
(* "/"), and numpy's basic slicing, broadcasting assignment, frombuffer    *)
(* and reshape are modelled by what they do.                               *)
(***************************************************************************)
EXTENDS Integers, Sequences, FiniteSets, TLC

----------------------------------------------------------------------------
(* Bounds of the model *)

\* largest nChannels passed to initialize, and largest row count of a data matrix
MaxChannels == 2
\* largest nSamples passed to initialize
MaxSamples == 2
\* most Streamer processes a run of Vis spawns
MaxStreamers == 3
\* most commands waiting in the queue of Vis
MaxQueue == 1
\* largest distance from either end of 0..1000 that the offset of Vis is
\* followed to
MaxOffset == 2
\* largest number of int16 values in a recording, and of values in a file
MaxWords == 4
\* largest n_channels passed to the functions of referencing.py
MaxFileChannels == 2
\* c.sizeof(BufferHeader) with _pack_ = 1 on LP64: c_ulong 8 + c_uint 4 + 8 + 8
HeaderSize == 28

----------------------------------------------------------------------------
(* datatypes: the type registry *)

types == (0 :> "float32") @@ (1 :> "int16")

\* type names a caller may pass: the registered ones, a numpy dtype that is
\* not registered, and a string numpy does not know
TypeNames == {"float32", "int16", "float64", "bogus"}

\* np.dtype(nptype) raises TypeError for a name numpy does not know
IsDtype(nptype) == nptype \in {"float32", "int16", "float64"}

\* np.dtype(nptype).itemsize
ItemSize(nptype) ==
    CASE nptype = "float32" -> 4
      [] nptype = "int16" -> 2
      [] nptype = "float64" -> 8
      [] OTHER -> 0

\* cls.types.values().index(ndtype) raises ValueError when ndtype is absent
get_code_raises(ndtype) == \A k \in DOMAIN types : types[k] # ndtype

\* the key at the first position whose value is ndtype
get_code(ndtype) ==
    CHOOSE k \in DOMAIN types :
        /\ types[k] = ndtype
        /\ \A j \in DOMAIN types : types[j] = ndtype => k <= j

\* cls.types[code] raises KeyError for a code that is no key
get_type_raises(code) == code \notin DOMAIN types

get_type(code) == types[code]

----------------------------------------------------------------------------
(* Raw arrays and headers *)

\* the one shared array of a run: allocated by initialize (line 80) or supplied
\* from outside to initialize_from_raw
RawIds == {"raw"}

BufferHeader(bufSizeBytes, dataType, nChannels, nSamples) ==
    [bufSizeBytes |-> bufSizeBytes, dataType |-> dataType,
     nChannels |-> nChannels, nSamples |-> nSamples]

ZeroHdr == BufferHeader(0, 0, 0, 0)

Zeros(n) == [k \in 1..n |-> 0]

NoRaw == [alive |-> FALSE, size |-> 0, hdr |-> ZeroHdr, body |-> << >>]

\* bufFlatSize = hdr.bufSizeBytes / np.dtype(nptype).itemsize  (integer division)
BufFlatSize(hdr) == hdr.bufSizeBytes \div ItemSize(get_type(hdr.dataType))

\* BufferHeader.from_buffer(raw) raises ValueError on an array shorter than the header
FromBufferRaises(size) == size < HeaderSize

\* np.frombuffer(raw, nptype, count, offset) raises ValueError when the array
\* holds fewer than count elements after the offset
NpFromBufferRaises(size, hdr) ==
    size - HeaderSize < BufFlatSize(hdr) * ItemSize(get_type(hdr.dataType))

\* .reshape((-1, hdr.nSamples)) raises ValueError unless the element count is
\* a multiple of a non-zero nSamples
ReshapeRaises(hdr) ==
    \/ hdr.nSamples = 0
    \/ BufFlatSize(hdr) % hdr.nSamples # 0

\* how far initialize_from_raw gets on an array of this size and header
AttachStage(size, hdr) ==
    IF FromBufferRaises(size) THEN "from_buffer"
    ELSE IF get_type_raises(hdr.dataType) THEN "get_type"
    ELSE IF NpFromBufferRaises(size, hdr) THEN "frombuffer"
    ELSE IF ReshapeRaises(hdr) THEN "reshape"
    ELSE "ok"

\* the number of elements of the body a view can reach
BodyLen(size, hdr) ==
    IF AttachStage(size, hdr) = "ok" THEN BufFlatSize(hdr) ELSE 0

MkRaw(size, hdr) ==
    [alive |-> TRUE, size |-> size, hdr |-> hdr,
     body |-> Zeros(BodyLen(size, hdr))]

\* arrays a caller may hand to initialize_from_raw that no initialize made:
\* one shorter than the header, and int16 / unknown-type headers over a
\* 4-byte body whose fields may or may not agree with each other
ForeignRaws ==
    {[size |-> HeaderSize - 1, hdr |-> ZeroHdr]} \cup
    {[size |-> HeaderSize + 4, hdr |-> BufferHeader(bsb, code, nc, ns)] :
        bsb \in {4, 6}, code \in {1, 2}, nc \in 1..2, ns \in 0..1}

----------------------------------------------------------------------------
VARIABLES
    heap,      \* RawIds -> raw array (size, header fields, body elements)
    bufs,      \* Buffers -> the attributes of each Buffer object
    ret,       \* outcome of the last call: what it returned or raised
    written,   \* RawIds -> columns assigned by completed __write_buffer calls
    created,   \* the arguments of the initialize call that made the array
    inflight,  \* the slice assignment of __write_buffer that is under way
    vis,       \* the Vis canvas: its attributes, its command queue, the Streamer processes
    fs         \* the files referencing.py works on: name -> number of values held

vars == <<heap, bufs, ret, written, created, inflight, vis, fs>>

\* what the calls on a Buffer leave alone
elsewhere == <<vis, fs>>

\* what the handlers of Vis and the functions of referencing.py leave alone
bufvars == <<heap, bufs, written, created, inflight>>

\* buf1 and buf2 of the demo: two Buffer objects, possibly in two processes.
\* buf1 creates the array and is the one writer; buf2 attaches to an array
\* it is handed and reads
Buffers == {"buf1", "buf2"}
Producer == "buf1"
Consumer == "buf2"

\* Buffer.__init__: only __initialized is set; every other attribute is absent
NewBuffer ==
    [initialized |-> FALSE, raw |-> "none", buf |-> "none",
     rows |-> 0, cols |-> 0, writeable |-> FALSE,
     nChannels |-> -1, bufSize |-> -1, nptype |-> "none"]

NoView == [raw |-> "none", rows |-> 0, cols |-> << >>, stride |-> 0, write |-> FALSE]

\* the value a call without a result leaves
NoneVal == -1

\* op: the call; exc, code: the exception it raised ("" for none) and a
\* BufferError's code; res, str, view: the number, string or array it returned
Ret(op, exc, code, res, view) ==
    [op |-> op, exc |-> exc, code |-> code, res |-> res, str |-> "", view |-> view]

Returns(op) == Ret(op, "", 0, NoneVal, NoView)
Raises(op, exc, code) == Ret(op, exc, code, NoneVal, NoView)

\* no array made by initialize yet (or the array came from outside)
NotCreated == [nChannels |-> 0, nSamples |-> 0, nptype |-> "none"]

\* no assignment under way
NoFlight == [active |-> FALSE, raw |-> "none", target |-> << >>, todo |-> << >>, cols |-> {}]

\* Vis.__init__: not running, offset 0, no Streamer, an empty Queue; alive
\* are the Streamer processes that run, started counts the ones spawned,
\* joining says that stop_streaming waits in __streamer.join()
NewVis ==
    [running |-> FALSE, offset |-> 0, drag_offset |-> 0,
     streamer |-> 0, started |-> 0, alive |-> {}, q |-> << >>, joining |-> FALSE,
     pressed |-> FALSE]

\* the names referencing.py reads and writes for a recording "dat": the
\* recording, the reference make_ref_file derives (fname + '_reference' +
\* ext), a reference file the caller has at hand, and the output of
\* subtract_reference (fname + '_meanref' + ext)
Files == {"dat", "dat_reference", "given", "dat_meanref"}

\* marks a name under which no file exists
NoFile == -1

Init ==
    /\ vis = NewVis
    /\ fs = [f \in Files |-> NoFile]
    /\ heap = [r \in RawIds |-> NoRaw]
    /\ bufs = [b \in Buffers |-> NewBuffer]
    /\ ret = Returns("__init__")
    /\ written = [r \in RawIds |-> {}]
    /\ created = NotCreated
    /\ inflight = NoFlight

\* an array nothing points at any more is reclaimed
Referenced(r) ==
    \/ \E b \in Buffers : bufs[b].raw = r \/ bufs[b].buf = r
    \/ ret.view.raw = r

----------------------------------------------------------------------------
(* Buffer.initialize_from_raw *)

\* the Buffer's attributes after initialize_from_raw(raw) on the array r, which
\* raised at the given stage or ran to the end
Attached(old, r, size, hdr, stage) ==
    IF stage \in {"from_buffer", "get_type"} THEN
        [old EXCEPT !.initialized = TRUE]
    ELSE IF stage \in {"frombuffer", "reshape"} THEN
        [old EXCEPT !.initialized = TRUE, !.raw = r]
    ELSE
        [initialized |-> TRUE, raw |-> r, buf |-> r,
         rows |-> BufFlatSize(hdr) \div hdr.nSamples, cols |-> hdr.nSamples,
         writeable |-> TRUE,
         nChannels |-> hdr.nChannels,
         bufSize |-> BufFlatSize(hdr) \div hdr.nSamples,
         nptype |-> get_type(hdr.dataType)]

AttachRet(stage) ==
    CASE stage = "from_buffer" -> Raises("initialize_from_raw", "ValueError", 0)
      [] stage = "get_type" -> Raises("initialize_from_raw", "KeyError", 0)
      [] stage = "frombuffer" -> Raises("initialize_from_raw", "ValueError", 0)
      [] stage = "reshape" -> Raises("initialize_from_raw", "ValueError", 0)
      [] OTHER -> Returns("initialize_from_raw")

\* b.initialize_from_raw(other.raw): the array another Buffer points at
initialize_from_raw(b, r) ==
    /\ heap[r].alive
    /\ \E o \in Buffers : bufs[o].initialized /\ bufs[o].raw = r
    /\ LET stage == AttachStage(heap[r].size, heap[r].hdr) IN
        /\ bufs' = [bufs EXCEPT ![b] = Attached(@, r, heap[r].size, heap[r].hdr, stage)]
        /\ ret' = AttachRet(stage)
    /\ UNCHANGED <<heap, written, created, inflight, elsewhere>>

\* b.initialize_from_raw(raw) on an array from outside; the Buffer keeps it
\* from line 104 on, and until then nothing but the caller holds it
initialize_from_foreign(b, f) ==
    LET stage == AttachStage(f.size, f.hdr)
        kept == stage \in {"frombuffer", "reshape", "ok"}
    IN  /\ kept => ~Referenced("raw")
        /\ bufs' = [bufs EXCEPT ![b] = Attached(@, "raw", f.size, f.hdr, stage)]
        /\ ret' = AttachRet(stage)
        /\ heap' = IF kept THEN [heap EXCEPT !["raw"] = MkRaw(f.size, f.hdr)] ELSE heap
        /\ written' = IF kept THEN [written EXCEPT !["raw"] = {}] ELSE written
        /\ created' = IF kept THEN NotCreated ELSE created
        /\ UNCHANGED <<inflight, elsewhere>>

----------------------------------------------------------------------------
(* Buffer.initialize *)

\* (a variant that lets a zero channel count through)
BadParameters_zeroChannels(nChannels, nSamples) == nChannels < 0 \/ nSamples < 1

\* if nChannels < 1 or nSamples < 1: raise BufferError(1)
BadParameters(nChannels, nSamples) == nChannels < 1 \/ nSamples < 1

\* (a variant that stores the two dimensions in each other's field)
NewHeader_swapped(nChannels, nSamples, nptype) ==
    BufferHeader(nSamples * nChannels * ItemSize(nptype),
                 get_code(nptype), nSamples, nChannels)

\* (a variant that counts the header into bufSizeBytes)
NewHeader_wholeArray(nChannels, nSamples, nptype) ==
    BufferHeader(HeaderSize + nSamples * nChannels * ItemSize(nptype),
                 get_code(nptype), nChannels, nSamples)

\* the header initialize writes into the new array
NewHeader(nChannels, nSamples, nptype) ==
    BufferHeader(nSamples * nChannels * ItemSize(nptype),
                 get_code(nptype), nChannels, nSamples)

\* what initialize raises before it reaches initialize_from_raw
InitializeRet(nChannels, nSamples, nptype) ==
    IF BadParameters(nChannels, nSamples) THEN
        Raises("initialize", "BufferError", 1)
    ELSE IF ~IsDtype(nptype) THEN
        Raises("initialize", "TypeError", 0)
    ELSE IF get_code_raises(nptype) THEN
        Raises("initialize", "ValueError", 0)
    ELSE Returns("initialize")

initialize(b, nChannels, nSamples, nptype) ==
    IF InitializeRet(nChannels, nSamples, nptype).exc # "" THEN
        \* the array allocated on line 80 dies with the call
        /\ ret' = InitializeRet(nChannels, nSamples, nptype)
        /\ UNCHANGED <<heap, bufs, written, created, inflight, elsewhere>>
    ELSE
        LET hdr == NewHeader(nChannels, nSamples, nptype)
            size == HeaderSize + nSamples * nChannels * ItemSize(nptype)
            stage == AttachStage(size, hdr)
        IN  /\ ~Referenced("raw")
            /\ heap' = [heap EXCEPT !["raw"] = MkRaw(size, hdr)]
            /\ written' = [written EXCEPT !["raw"] = {}]
            /\ bufs' = [bufs EXCEPT ![b] = Attached(@, "raw", size, hdr, stage)]
            /\ ret' = IF stage = "ok" THEN Returns("initialize")
                      ELSE [AttachRet(stage) EXCEPT !.op = "initialize"]
            /\ created' = [nChannels |-> nChannels, nSamples |-> nSamples,
                           nptype |-> nptype]
            /\ UNCHANGED <<inflight, elsewhere>>

----------------------------------------------------------------------------
(* numpy arrays handed to put_data, basic slicing and broadcasting *)

MaxDim == IF MaxChannels > MaxSamples THEN MaxChannels ELSE MaxSamples

\* a 2-d array of shape (r, k), or a 1-d array of shape (k,) held as one row
\* two fill patterns, so that a second write over a first one shows
Seeds == {0, 1}

DataSet ==
    [ndim : {2}, r : 1..MaxDim, k : 1..MaxDim, seed : Seeds] \cup
    [ndim : {1}, r : {1}, k : 1..MaxDim, seed : Seeds]

\* data[i, j], counted from 0: values 1..3 that differ along rows and columns
\* (0 is what a fresh Array holds)
Elem(d, i, j) == 1 + ((d.seed + i * d.k + j) % 3)

\* the array as rows of values
Mat(d) == [i \in 1..d.r |-> [j \in 1..d.k |-> Elem(d, i - 1, j - 1)]]

\* len(data): the extent of the first axis
DataLen(d) == IF d.ndim = 1 THEN d.k ELSE d.r

\* a slice bound on an axis of length n: negative bounds count from the end,
\* and bounds are clipped to 0..n
SliceBound(i, n) ==
    IF i < 0 THEN (IF i + n < 0 THEN 0 ELSE i + n)
    ELSE (IF i > n THEN n ELSE i)

\* the column indices that [start:end] selects on an axis of length n
SliceCols(start, end, n) ==
    LET lo == SliceBound(start, n)
        hi == SliceBound(end, n)
    IN  [j \in 1..(IF hi > lo THEN hi - lo ELSE 0) |-> lo + j - 1]

\* whether an array of d's shape broadcasts to the shape (rows, width)
Broadcastable(d, rows, width) ==
    /\ d.k = width \/ d.k = 1
    /\ d.r = rows \/ d.r = 1

\* flat position (from 1) of element [i, c] of a C-ordered view whose rows
\* are stride elements long
Flat(i, c, stride) == i * stride + c + 1

\* body after  view[:, cols] = data
AssignCols(body, stride, cols, d) ==
    [idx \in DOMAIN body |->
        LET i == (idx - 1) \div stride
            c == (idx - 1) % stride
        IN  IF \E j \in DOMAIN cols : cols[j] = c
            THEN LET j == CHOOSE jj \in DOMAIN cols : cols[jj] = c
                 IN  Elem(d, IF d.r = 1 THEN 0 ELSE i, IF d.k = 1 THEN 0 ELSE j - 1)
            ELSE body[idx]]

\* the values seen through a view when the arrays hold h, as rows
ViewMat(h, v) ==
    [i \in 1..v.rows |->
        [j \in 1..Len(v.cols) |-> h[v.raw].body[Flat(i - 1, v.cols[j], v.stride)]]]

\* start / end arguments a caller passes to get_data and check_availablility:
\* one below 0 to one past the largest capacity
Indices == -1..(MaxSamples + 1)

\* start arguments a caller passes to put_data
Starts == (-MaxSamples)..MaxSamples

----------------------------------------------------------------------------
(* Buffer.check_availablility, __read_buffer, get_data *)

check_availablility(start, end) ==
    IF start < end THEN 0 ELSE NoneVal

\* Python's truth value of what check_availablility returns
Truthy(x) == x # 0 /\ x # NoneVal

\* (a variant that drops the "not": write=wprotect)
WriteFlag_notDropped(wprotect) == wprotect

\* data.setflags(write=not wprotect)
WriteFlag(wprotect) == ~wprotect

\* self.__buf[:, start:end]
Window(buf, start, end) ==
    [raw |-> buf.buf, rows |-> buf.rows, cols |-> SliceCols(start, end, buf.cols),
     stride |-> buf.cols, write |-> buf.writeable]

\* a private attribute read through __getattr__: BufferError(1) before
\* initialization, AttributeError when it is initialized but was never set
Missing(op, buf) ==
    IF ~buf.initialized THEN Raises(op, "BufferError", 1)
    ELSE Raises(op, "AttributeError", 0)

read_buffer(buf, start, end) ==
    LET av_error == check_availablility(start, end) IN
    IF ~Truthy(av_error) THEN
        IF ~buf.initialized \/ buf.buf = "none" THEN Missing("get_data", buf)
        ELSE Ret("get_data", "", 0, NoneVal, Window(buf, start, end))
    ELSE Raises("get_data", "BufferError", av_error)

GetDataRet(buf, start, end, wprotect) ==
    LET data == read_buffer(buf, start, end) IN
    IF data.exc # "" THEN data
    ELSE IF WriteFlag(wprotect) /\ ~buf.writeable
         THEN Raises("get_data", "ValueError", 0)
    ELSE [data EXCEPT !.view.write = WriteFlag(wprotect)]

get_data(b, start, end, wprotect) ==
    /\ ret' = GetDataRet(bufs[b], start, end, wprotect)
    /\ UNCHANGED <<heap, bufs, written, created, inflight, elsewhere>>

\* b.check_availablility(start, end), called on its own: it reads nothing of b
CheckAvailability(b, start, end) ==
    /\ ret' = Ret("check_availablility", "", 0, check_availablility(start, end), NoView)
    /\ UNCHANGED <<heap, bufs, written, created, inflight, elsewhere>>

----------------------------------------------------------------------------
(* The read-only properties, read through __getattr__ when the private      *)
(* attribute behind them is absent                                           *)

PropertyNames == {"is_initialized", "raw", "nChannels", "nSamples", "bufSize", "nptype"}

\* b.<name>: the lambda of the property reads the private attribute.
\* __initialized is set by __init__; __raw, __nChannels, __bufSize and
\* __nptype by initialize_from_raw; no statement assigns __nSamples
Property(buf, name) ==
    CASE name = "is_initialized" ->
            [Returns(name) EXCEPT !.res = IF buf.initialized THEN 1 ELSE 0]
      [] name = "raw" ->
            IF buf.raw = "none" THEN Missing(name, buf)
            ELSE [Returns(name) EXCEPT !.str = buf.raw]
      [] name = "nChannels" ->
            IF buf.nChannels = -1 THEN Missing(name, buf)
            ELSE [Returns(name) EXCEPT !.res = buf.nChannels]
      [] name = "bufSize" ->
            IF buf.bufSize = -1 THEN Missing(name, buf)
            ELSE [Returns(name) EXCEPT !.res = buf.bufSize]
      [] name = "nptype" ->
            IF buf.nptype = "none" THEN Missing(name, buf)
            ELSE [Returns(name) EXCEPT !.str = buf.nptype]
      [] OTHER -> Missing(name, buf)

getattr(b, name) ==
    /\ ret' = Property(bufs[b], name)
    /\ UNCHANGED <<heap, bufs, written, created, inflight, elsewhere>>

----------------------------------------------------------------------------
(* buf2 = Buffer() on a name that held an attached Buffer: the process drops  *)
(* its view.  The old object's references to the array (__raw, __hdr, __buf) *)
(* go with it, and an array nothing else points at is reclaimed              *)

\* whether a Buffer other than b still points at the array r
HeldByOther(b, r) ==
    \E o \in Buffers \ {b} : bufs[o].raw = r \/ bufs[o].buf = r

\* (a variant in which dropping a view releases the shared array as well)
init_Buffer_releasing(b) ==
    /\ bufs[b] # NewBuffer
    /\ bufs' = [bufs EXCEPT ![b] = NewBuffer]
    /\ ret' = Returns("__init__")
    /\ heap' = [r \in RawIds |-> IF bufs[b].raw = r THEN NoRaw ELSE heap[r]]
    /\ UNCHANGED <<written, created, inflight, elsewhere>>

init_Buffer(b) ==
    /\ bufs[b] # NewBuffer
    /\ bufs' = [bufs EXCEPT ![b] = NewBuffer]
    /\ ret' = Returns("__init__")
    /\ LET gone == {r \in RawIds : bufs[b].raw = r /\ ~HeldByOther(b, r)} IN
        /\ heap' = [r \in RawIds |-> IF r \in gone THEN NoRaw ELSE heap[r]]
        /\ written' = [r \in RawIds |-> IF r \in gone THEN {} ELSE written[r]]
        /\ created' = IF gone # {} THEN NotCreated ELSE created
    /\ UNCHANGED <<inflight, elsewhere>>

----------------------------------------------------------------------------
(* Buffer.put_data, __write_buffer *)

\* data.shape[1] != self.nChannels for a 2-d array, self.nChannels != 1 for a 1-d one
IncompatibleShape(d, nChannels) ==
    IF d.ndim # 1 THEN d.k # nChannels ELSE nChannels # 1

\* end = start + len(data)
PutEnd(d, start) == start + DataLen(d)

PutDataRet(buf, d, start) ==
    IF ~buf.initialized \/ buf.nChannels = -1 THEN Missing("put_data", buf)
    ELSE IF IncompatibleShape(d, buf.nChannels) THEN Raises("put_data", "BufferError", 4)
    ELSE IF ~buf.writeable THEN Raises("put_data", "ValueError", 0)
    ELSE IF ~Broadcastable(d, buf.rows, Len(SliceCols(start, PutEnd(d, start), buf.cols)))
         THEN Raises("put_data", "ValueError", 0)
    ELSE Returns("put_data")

\* self.__buf[:, start:end] = data
write_buffer(buf, d, start, end) ==
    [heap EXCEPT ![buf.buf].body =
        AssignCols(@, buf.cols, SliceCols(start, end, buf.cols), d)]

put_data(b, d, start) ==
    LET r == PutDataRet(bufs[b], d, start) IN
    /\ ret' = r
    /\ IF r.exc = "" THEN
            /\ heap' = write_buffer(bufs[b], d, start, PutEnd(d, start))
            /\ written' = [written EXCEPT ![bufs[b].buf] =
                    @ \cup {SliceCols(start, PutEnd(d, start), bufs[b].cols)[j] :
                              j \in DOMAIN SliceCols(start, PutEnd(d, start), bufs[b].cols)}]
       ELSE UNCHANGED <<heap, written>>
    /\ UNCHANGED <<bufs, created, inflight, elsewhere>>

----------------------------------------------------------------------------
(* put_data as another process sees it: the slice assignment of              *)
(* __write_buffer copies element by element into the shared array, in C      *)
(* order, with no lock and nothing published at the end, so a reader in      *)
(* another process runs between any two element stores                       *)

\* flat positions of the elements in the given columns, in C order
CellsOf(body, stride, cols) ==
    SelectSeq([idx \in 1..Len(body) |-> idx],
              LAMBDA idx : \E j \in DOMAIN cols : cols[j] = (idx - 1) % stride)

\* put_data up to the start of the copy: the checks, and the copy set up
put_begin(b, d, start) ==
    LET r == PutDataRet(bufs[b], d, start)
        cols == SliceCols(start, PutEnd(d, start), bufs[b].cols)
    IN  /\ ~inflight.active
        /\ IF r.exc # "" THEN
                /\ ret' = r
                /\ UNCHANGED <<heap, bufs, written, created, inflight, elsewhere>>
           ELSE IF CellsOf(heap[bufs[b].buf].body, bufs[b].cols, cols) = << >> THEN
                /\ ret' = r
                /\ UNCHANGED <<heap, bufs, written, created, inflight, elsewhere>>
           ELSE
                /\ inflight' =
                      [active |-> TRUE, raw |-> bufs[b].buf,
                       target |-> write_buffer(bufs[b], d, start, PutEnd(d, start))[bufs[b].buf].body,
                       todo |-> CellsOf(heap[bufs[b].buf].body, bufs[b].cols, cols),
                       cols |-> {cols[j] : j \in DOMAIN cols}]
                /\ UNCHANGED <<heap, bufs, ret, written, created, elsewhere>>

\* one element store of the copy; put_data returns after the last one
put_copy ==
    /\ inflight.active
    /\ heap' = [heap EXCEPT ![inflight.raw].body[Head(inflight.todo)] =
                    inflight.target[Head(inflight.todo)]]
    /\ IF Tail(inflight.todo) = << >> THEN
            /\ inflight' = NoFlight
            /\ ret' = Returns("put_data")
            /\ written' = [written EXCEPT ![inflight.raw] = @ \cup inflight.cols]
       ELSE
            /\ inflight' = [inflight EXCEPT !.todo = Tail(@)]
            /\ UNCHANGED <<ret, written>>
    /\ UNCHANGED <<bufs, created, elsewhere>>

----------------------------------------------------------------------------
(* dat[0, 0] = 100 on the view get_data returned (the demo's last step) *)

MutVal == 100

SetItemRet(v) ==
    IF ~v.write THEN Raises("setitem", "ValueError", 0)
    ELSE IF v.rows < 1 \/ Len(v.cols) < 1 THEN Raises("setitem", "IndexError", 0)
    ELSE Returns("setitem")

setitem ==
    /\ ret.op = "get_data"
    /\ ret.view.raw # "none"
    /\ ret' = SetItemRet(ret.view)
    /\ heap' = IF SetItemRet(ret.view).exc = ""
               THEN [heap EXCEPT ![ret.view.raw].body[Flat(0, ret.view.cols[1], ret.view.stride)] = MutVal]
               ELSE heap
    /\ UNCHANGED <<bufs, written, created, inflight, elsewhere>>

----------------------------------------------------------------------------
(* vis.py: the Vis canvas, its timer and the Streamer process it spawns *)

\* the limit set_offset clamps to
OffsetLimit == 1000

\* Vis.__get_is_streaming: self.__streamer.is_alive(), False when that raises
\* (no Streamer yet)
is_streaming(v) == v.streamer # 0 /\ v.streamer \in v.alive

\* Vis.start_streaming: a new Streamer on the raw array of the Vis's buffer
\* replaces self.__streamer and is started
StartStreaming(v) ==
    [v EXCEPT !.started = @ + 1, !.streamer = v.started + 1,
              !.alive = @ \cup {v.started + 1}]

start_streaming ==
    /\ ~vis.joining
    /\ vis.started < MaxStreamers
    /\ vis' = StartStreaming(vis)
    /\ ret' = Returns("start_streaming")
    /\ UNCHANGED <<bufvars, fs>>

Command(cmd, arg) == [cmd |-> cmd, arg |-> arg]

\* Vis.stop_streaming up to self.__streamer.join()
stop_streaming ==
    /\ ~vis.joining
    /\ IF ~is_streaming(vis) THEN
            /\ ret' = Raises("stop_streaming", "Exception", 0)
            /\ UNCHANGED vis
       ELSE /\ Len(vis.q) < MaxQueue
            /\ vis' = [vis EXCEPT !.q = Append(@, Command("stop", 0)), !.joining = TRUE]
            /\ UNCHANGED ret
    /\ UNCHANGED <<bufvars, fs>>

\* self.__streamer.join() returns once that process has ended
join_returns ==
    /\ vis.joining
    /\ vis.streamer \notin vis.alive
    /\ vis' = [vis EXCEPT !.joining = FALSE]
    /\ ret' = Returns("stop_streaming")
    /\ UNCHANGED <<bufvars, fs>>

\* the offsets the model follows: those near either end of 0..1000
Tracked(o) ==
    \/ o \in -MaxOffset..MaxOffset
    \/ o \in (OffsetLimit - MaxOffset)..(OffsetLimit + MaxOffset)

\* Vis.set_offset(relative, absolute):  absolute or self.offset, plus relative,
\* clamped to 0..1000
set_offset(v, relative, absolute) ==
    LET base == IF absolute # 0 THEN absolute ELSE v.offset
        moved == base + relative
    IN  [v EXCEPT !.offset = IF moved < 0 THEN 0
                             ELSE IF moved > OffsetLimit THEN OffsetLimit
                             ELSE moved]

\* Vis.on_timer: spawn a Streamer unless one is alive, send the position,
\* read the buffer, and step the offset when running
on_timer ==
    /\ ~vis.joining
    /\ Len(vis.q) < MaxQueue
    /\ is_streaming(vis) \/ vis.started < MaxStreamers
    /\ LET v1 == IF ~is_streaming(vis) THEN StartStreaming(vis) ELSE vis
           v2 == [v1 EXCEPT !.q = Append(@, Command("position", v1.offset))]
       IN  vis' = IF v2.running THEN set_offset(v2, 1, 0) ELSE v2
    /\ Tracked(vis'.offset)
    /\ ret' = Returns("on_timer")
    /\ UNCHANGED <<bufvars, fs>>

Keys == {"Space", "Left", "Right"}

\* Vis.on_key_press ('Q' closes the canvas and ends the run)
on_key_press(key) ==
    /\ ~vis.joining
    /\ vis' = CASE key = "Space" -> [vis EXCEPT !.running = ~@]
                [] key = "Left" -> [vis EXCEPT !.offset = @ - 2, !.running = FALSE]
                [] key = "Right" -> [vis EXCEPT !.offset = @ + 2, !.running = FALSE]
    /\ Tracked(vis'.offset)
    /\ ret' = Returns("on_key_press")
    /\ UNCHANGED <<bufvars, fs>>

\* self.n_cols and self.n_samples of Vis.__init__
n_cols == 4
n_samples == 30000

\* int(x) of a quotient n/d with d > 0: truncation towards zero
Trunc(n, d) == IF n >= 0 THEN n \div d ELSE -((-n) \div d)

\* shift_offset of on_mouse_move for a drag of dx pixels on a canvas that is
\* size0 pixels wide:  int(dx / (size0 / n_cols) * n_samples / 1024)
shift_offset(dx, size0) == Trunc(dx * n_cols * n_samples, size0 * 1024)

\* widths of the canvas in pixels, and horizontal extents of a drag
CanvasWidths == {4, 800}
Drags == {-35, -34, -7, 7, 34, 35}
Buttons == {1, 2}

\* Vis.on_mouse_press: remember the offset the drag starts from
on_mouse_press ==
    /\ ~vis.joining
    /\ vis' = [vis EXCEPT !.drag_offset = vis.offset, !.pressed = TRUE]
    /\ ret' = Returns("on_mouse_press")
    /\ UNCHANGED <<bufvars, fs>>

\* Vis.on_mouse_move while dragging (event.is_dragging needs a button that was
\* pressed): button 1 drags the signals, button 2 changes the scaling of the
\* shader only
on_mouse_move(button, dx, size0) ==
    /\ ~vis.joining
    /\ vis.pressed
    /\ vis' = IF button = 1
              THEN [set_offset(vis, 0, vis.drag_offset - shift_offset(dx, size0))
                        EXCEPT !.running = FALSE]
              ELSE vis
    /\ Tracked(vis'.offset)
    /\ ret' = Returns("on_mouse_move")
    /\ UNCHANGED <<bufvars, fs>>

\* np.sign
Sign(x) == IF x > 0 THEN 1 ELSE IF x < 0 THEN -1 ELSE 0

\* event.delta[1] of a wheel event
Deltas == {-1, 1}

\* Vis.on_mouse_wheel without modifiers (with Shift or Ctrl the wheel changes
\* the scaling of the shader only)
on_mouse_wheel(delta) ==
    /\ ~vis.joining
    /\ LET dx == -Sign(delta) * (delta * delta)
       IN  vis' = [set_offset(vis, dx * 5, 0) EXCEPT !.running = FALSE]
    /\ Tracked(vis'.offset)
    /\ ret' = Returns("on_mouse_wheel")
    /\ UNCHANGED <<bufvars, fs>>

\* a running Streamer process takes the next command from the queue it was
\* given: 'stop' ends the process, 'position' makes it seek
Streamer_run(p) ==
    /\ p \in vis.alive
    /\ vis.q # << >>
    /\ vis' = [vis EXCEPT !.q = Tail(@),
                          !.alive = IF Head(vis.q).cmd = "stop" THEN @ \ {p} ELSE @]
    /\ UNCHANGED <<bufvars, ret, fs>>

NextVis ==
    \/ start_streaming
    \/ stop_streaming
    \/ join_returns
    \/ on_timer
    \/ \E key \in Keys : on_key_press(key)
    \/ on_mouse_press
    \/ \E button \in Buttons, dx \in Drags, size0 \in CanvasWidths :
          on_mouse_move(button, dx, size0)
    \/ \E delta \in Deltas : on_mouse_wheel(delta)
    \/ \E p \in 1..MaxStreamers : Streamer_run(p)

SpecVis == Init /\ [][NextVis]_vars

----------------------------------------------------------------------------
(* referencing.py: make_ref_file, subtract_reference, ref.                   *)
(* A file is held as the number of values in it: int16 values for the        *)
(* recording and the output, one value per row for a reference file          *)

\* ch_idx_good / ch_idx_bad: None, or a list of channel indices
NoChannels == [given |-> FALSE, idx |-> {}]
ChannelLists ==
    {NoChannels} \cup [given : {TRUE}, idx : SUBSET (0..(MaxFileChannels - 1))]

\* the outcome of a function: the files after it, the exception it raised
\* ("" for none) and the path it returned
Outcome(files, exc, path) == [fs |-> files, exc |-> exc, path |-> path]

\* np.memmap(file, dtype).reshape(-1, n_channels) raises ValueError on an
\* empty file and on a length that is no multiple of n_channels
MemmapRaises(words, n_channels) == words = 0 \/ words % n_channels # 0

\* the batches of get_batch_limits cover the rows 0 .. rows - 1 once
BatchRows(rows) == rows

\* [c for c in range(dat_arr.shape[1]) if c not in ch_idx_bad]
GoodFromBad(cols, bad) == [given |-> TRUE, idx |-> (0..(cols - 1)) \ bad.idx]

make_ref_file_result(files, n_channels, ch_idx_good, ch_idx_bad) ==
    IF files["dat"] = NoFile THEN Outcome(files, "IOError", "none")
    ELSE
    LET opened == [files EXCEPT !["dat_reference"] = 0]
        cols == n_channels
        rows == files["dat"] \div cols
        good == IF ch_idx_bad.given THEN GoodFromBad(cols, ch_idx_bad) ELSE ch_idx_good
        n == IF good.given THEN Cardinality(good.idx) ELSE cols
        all_good == (0..(n - 1)) = good.idx
    IN  IF MemmapRaises(files["dat"], n_channels) THEN Outcome(opened, "ValueError", "none")
        ELSE IF ch_idx_good.given /\ ch_idx_bad.given
             THEN Outcome(opened, "AssertionError", "none")
        \* set(ch_idx_good) on line 94 when ch_idx_good is still None
        ELSE IF ~good.given THEN Outcome(opened, "TypeError", "none")
        \* .take(ch_idx_good, axis=1) with an index that is no column
        ELSE IF ~all_good /\ (\E c \in good.idx : c >= cols)
             THEN Outcome(opened, "IndexError", "none")
        ELSE Outcome([opened EXCEPT !["dat_reference"] = BatchRows(rows)], "", "dat_reference")

make_ref_file(n_channels, ch_idx_good, ch_idx_bad) ==
    LET m == make_ref_file_result(fs, n_channels, ch_idx_good, ch_idx_bad) IN
    /\ fs' = m.fs
    /\ ret' = IF m.exc # "" THEN Raises("make_ref_file", m.exc, 0)
              ELSE [Returns("make_ref_file") EXCEPT !.str = m.path]
    /\ UNCHANGED <<bufvars, vis>>

subtract_reference_result(files, ref_path, inplace, n_channels) ==
    IF files["dat"] = NoFile \/ files[ref_path] = NoFile
        THEN Outcome(files, "IOError", "none")
    ELSE IF MemmapRaises(files["dat"], n_channels) \/ MemmapRaises(files[ref_path], 1)
        THEN Outcome(files, "ValueError", "none")
    ELSE IF files["dat"] \div n_channels # files[ref_path]
        THEN Outcome(files, "AssertionError", "none")
    ELSE IF inplace THEN Outcome(files, "", "dat_meanref")
    ELSE Outcome([files EXCEPT !["dat_meanref"] = files["dat"]], "", "dat_meanref")

\* ref_path values a caller passes to ref: None, or the file at hand
RefPaths == {"none", "given"}

ref_result(files, ref_path, keep, inplace, n_channels, ch_idx_good, ch_idx_bad) ==
    LET m == IF ref_path = "none"
             THEN make_ref_file_result(files, n_channels, ch_idx_good, ch_idx_bad)
             ELSE Outcome(files, "", ref_path)
        sub == subtract_reference_result(m.fs, m.path, inplace, n_channels)
    IN  IF m.exc # "" THEN m
        ELSE IF sub.exc # "" THEN sub
        ELSE IF ~keep THEN [sub EXCEPT !.fs[m.path] = NoFile]
        ELSE sub

ref(ref_path, keep, inplace, n_channels, ch_idx_good, ch_idx_bad) ==
    LET r == ref_result(fs, ref_path, keep, inplace, n_channels, ch_idx_good, ch_idx_bad) IN
    /\ fs' = r.fs
    /\ ret' = IF r.exc # "" THEN Raises("ref", r.exc, 0)
              ELSE [Returns("ref") EXCEPT !.str = r.path]
    /\ UNCHANGED <<bufvars, vis>>

\* the user stores a recording, or a reference file to have at hand
store_file(f, words) ==
    /\ fs' = [fs EXCEPT ![f] = words]
    /\ ret' = Returns("store_file")
    /\ UNCHANGED <<bufvars, vis>>

NextRef ==
    \/ \E f \in {"dat", "given"}, words \in 0..MaxWords : store_file(f, words)
    \/ \E n_channels \in 1..MaxFileChannels, ch_idx_good \in ChannelLists,
          ch_idx_bad \in ChannelLists :
          make_ref_file(n_channels, ch_idx_good, ch_idx_bad)
    \/ \E ref_path \in RefPaths, keep \in BOOLEAN, inplace \in BOOLEAN,
          n_channels \in 1..MaxFileChannels, ch_idx_good \in ChannelLists,
          ch_idx_bad \in ChannelLists :
          ref(ref_path, keep, inplace, n_channels, ch_idx_good, ch_idx_bad)

SpecRef == Init /\ [][NextRef]_vars

----------------------------------------------------------------------------
Next ==
    \/ \E nChannels \in 0..MaxChannels, nSamples \in 0..MaxSamples,
          nptype \in TypeNames : initialize(Producer, nChannels, nSamples, nptype)
    \/ \E r \in RawIds : initialize_from_raw(Consumer, r)
    \/ \E f \in ForeignRaws : initialize_from_foreign(Consumer, f)
    \/ \E d \in DataSet, start \in Starts : put_data(Producer, d, start)
    \/ \E b \in Buffers, start \in -1..MaxSamples, end \in Indices, wprotect \in BOOLEAN :
          get_data(b, start, end, wprotect)
    \/ \E start \in -1..MaxSamples, end \in Indices : CheckAvailability(Consumer, start, end)
    \/ \E b \in Buffers, name \in PropertyNames : getattr(b, name)
    \/ init_Buffer(Consumer)
    \/ setitem

Spec == Init /\ [][Next]_vars

\* one producer process and one consumer process on the shared array: the
\* producer is inside at most one call at a time, the consumer makes its
\* reading calls freely, also between two element stores of the producer
NextConc ==
    \/ /\ ~inflight.active
       /\ \E nChannels \in 0..MaxChannels, nSamples \in 0..MaxSamples, nptype \in TypeNames :
              initialize(Producer, nChannels, nSamples, nptype)
    \/ \E d \in DataSet, start \in Starts : put_begin(Producer, d, start)
    \/ put_copy
    \/ \E r \in RawIds : initialize_from_raw(Consumer, r)
    \/ \E f \in ForeignRaws : initialize_from_foreign(Consumer, f)
    \/ \E start \in -1..MaxSamples, end \in Indices, wprotect \in BOOLEAN :
          get_data(Consumer, start, end, wprotect)
    \/ \E start \in -1..MaxSamples, end \in Indices : CheckAvailability(Consumer, start, end)
    \/ init_Buffer(Consumer)

SpecConc == Init /\ [][NextConc]_vars

----------------------------------------------------------------------------
(* Properties *)

\* b has a view on an array that initialize made
OnCreated(b) == bufs[b].buf # "none" /\ created # NotCreated

\* the writer's view is attached to the array it made
ProducerAttached == OnCreated(Producer)

\* C1: after put_data(data, start) of a matrix with nChannels rows and w
\* columns, 0 <= start and start + w <= nSamples, get_data(start, start + w)
\* through every view on the same array returns exactly data.
C1_RoundTrip ==
    [][\A d \in DataSet, start \in Starts :
          ( /\ ret'.op = "put_data"
            /\ put_data(Producer, d, start)
            /\ ProducerAttached
            /\ d.ndim = 2 /\ d.r = bufs[Producer].nChannels
            /\ 0 <= start /\ start + d.k <= bufs[Producer].cols )
          => /\ ret'.exc = ""
             /\ \A b \in Buffers : bufs'[b].buf = bufs'[Producer].buf =>
                  LET got == GetDataRet(bufs'[b], start, start + d.k, TRUE)
                  IN  got.exc = "" /\ ViewMat(heap', got.view) = Mat(d)]_vars

\* C2: when the consumer's get_data returns a range its availability check
\* reported available, every column of it has been written by a completed
\* put_data and no put_data is in the middle of writing it.
C2_ReadsOnlyCommitted ==
    [][\A start \in -1..MaxSamples, end \in Indices, wprotect \in BOOLEAN :
          ( /\ ret'.op = "get_data" /\ ret'.exc = ""
            /\ get_data(Consumer, start, end, wprotect)
            /\ OnCreated(Consumer)
            /\ check_availablility(start, end) = 0 )
          => \A j \in DOMAIN ret'.view.cols :
                /\ ret'.view.cols[j] \in written[ret'.view.raw]
                /\ ~(inflight.active /\ ret'.view.cols[j] \in inflight.cols)]_vars

\* the published cursor: exclusive upper bound of the columns written so far
Cursor(W) == IF W = {} THEN 0 ELSE 1 + CHOOSE c \in W : \A x \in W : x <= c

\* the documented return codes: 0 available, 1 needs to be read in,
\* 2 partially unavailable, 3 completely unavailable
Classify(start, end, cursor, capacity) ==
    IF start < 0 \/ end > capacity THEN 3
    ELSE IF end <= cursor THEN 0
    ELSE IF start < cursor THEN 2
    ELSE 1

\* C3: the availability check classifies [start, end) against the published
\* write cursor: fully available, partially available, needs load, or
\* unavailable when out of bounds.
C3_Classification ==
    [][\A start \in -1..MaxSamples, end \in Indices :
          ( /\ ret'.op = "check_availablility"
            /\ CheckAvailability(Consumer, start, end)
            /\ OnCreated(Consumer)
            /\ start < end )
          => ret'.res = Classify(start, end, Cursor(written[bufs[Consumer].buf]),
                                 bufs[Consumer].cols)]_vars

\* C4: get_data(start, end) with end <= start on an initialized Buffer raises
\* and returns no view.
C4_EmptyRangeFails ==
    [][\A b \in Buffers, start \in -1..MaxSamples, end \in Indices, wprotect \in BOOLEAN :
          ( /\ ret'.op = "get_data"
            /\ get_data(b, start, end, wprotect)
            /\ OnCreated(b)
            /\ end <= start )
          => ret'.exc # "" /\ ret'.view = NoView]_vars

\* C5: put_data of a matrix whose row count differs from nChannels raises
\* BufferError(4) and leaves the body unchanged; a matrix with exactly
\* nChannels rows is never refused with BufferError(4).
C5_ShapeError ==
    [][\A d \in DataSet, start \in Starts :
          ( /\ ret'.op = "put_data"
            /\ put_data(Producer, d, start)
            /\ ProducerAttached
            /\ d.ndim = 2 )
          => /\ d.r # bufs[Producer].nChannels =>
                  ret' = Raises("put_data", "BufferError", 4) /\ heap' = heap
             /\ d.r = bufs[Producer].nChannels =>
                  ~(ret'.exc = "BufferError" /\ ret'.code = 4)]_vars

\* C6: put_data(data, start) whose columns [start, start + width) are not all
\* inside [0, nSamples) raises, and a put_data that raises leaves every
\* element of the array unchanged.
C6_RangeErrorAtomic ==
    [][\A d \in DataSet, start \in Starts :
          ( /\ ret'.op = "put_data"
            /\ put_data(Producer, d, start)
            /\ ProducerAttached )
          => /\ (start < 0 \/ start + d.k > bufs[Producer].cols) => ret'.exc # ""
             /\ ret'.exc # "" => heap' = heap]_vars

\* C7: a view get_data returned with wprotect=True is read-only: dat[0, 0] =
\* 100 on it raises and changes no element, so every later get_data through
\* any view reads what it read before; and returning a protected view leaves
\* the Buffers as they were, so later put_data calls go through as before.
C7_WriteProtect ==
    /\ [](\A b \in Buffers, start \in -1..MaxSamples, end \in Indices :
             LET r == GetDataRet(bufs[b], start, end, TRUE)
             IN  r.exc = "" => ~r.view.write)
    /\ [][
       /\ ret'.op = "get_data" => bufs' = bufs /\ heap' = heap
       /\ (ret'.op = "setitem" /\ ~ret.view.write) =>
             /\ ret'.exc # ""
             /\ heap' = heap
             /\ \A b \in Buffers, start \in -1..MaxSamples, end \in Indices :
                  LET before == GetDataRet(bufs[b], start, end, TRUE)
                      after == GetDataRet(bufs'[b], start, end, TRUE)
                  IN  /\ after = before
                      /\ before.exc = "" =>
                            ViewMat(heap', after.view) = ViewMat(heap, before.view)]_vars

\* a protected, non-empty view was assigned to and the assignment was refused
C7_Witness ==
    /\ ret = Raises("setitem", "ValueError", 0)
    /\ \E i \in DOMAIN heap["raw"].body : heap["raw"].body[i] # 0

\* C8: after initialize(nChannels, nSamples, nptype) in one Buffer and
\* initialize_from_raw on the same array in another, the header fields (data
\* size in bytes, type code, channel count, sample capacity) that each view
\* holds are the same and equal the creation parameters.
C8_SameHeader ==
    \A b \in Buffers : OnCreated(b) =>
        LET hdr == heap[bufs[b].raw].hdr IN
        /\ hdr.bufSizeBytes =
              created.nChannels * created.nSamples * ItemSize(created.nptype)
        /\ hdr.dataType \in DOMAIN types /\ types[hdr.dataType] = created.nptype
        /\ hdr.nChannels = created.nChannels
        /\ hdr.nSamples = created.nSamples
        /\ bufs[b].nChannels = created.nChannels
        /\ bufs[b].rows = created.nChannels
        /\ bufs[b].cols = created.nSamples
        /\ bufs[b].bufSize = created.nChannels
        /\ bufs[b].nptype = created.nptype

\* both Buffers are attached to an array made with unequal dimensions
C8_Witness ==
    /\ OnCreated(Producer) /\ OnCreated(Consumer)
    /\ ret = Returns("initialize_from_raw")
    /\ created.nChannels # created.nSamples

\* the type name is a value of the registry
Registered(nptype) == \E k \in DOMAIN types : types[k] = nptype

Inconsistent(hdr) ==
    /\ hdr.dataType \in DOMAIN types
    /\ hdr.bufSizeBytes # hdr.nChannels * hdr.nSamples * ItemSize(types[hdr.dataType])

\* C10: initialize_from_raw raises on an array shorter than the header, on a
\* header whose fields are inconsistent, and on a type code that is not in
\* the registry; and it never changes the header.
C10_AttachValidates ==
    [][\A f \in ForeignRaws :
          ( /\ ret'.op = "initialize_from_raw"
            /\ initialize_from_foreign(Consumer, f) )
          => /\ (f.size < HeaderSize \/ Inconsistent(f.hdr)
                   \/ f.hdr.dataType \notin DOMAIN types) => ret'.exc # ""
             /\ heap'["raw"].alive /\ bufs'[Consumer].raw = "raw" =>
                   heap'["raw"].hdr = f.hdr]_vars

\* C11: while no initialize or initialize_from_raw has run to its end on a
\* Buffer (also after one that raised), is_initialized reads False and
\* raw, nChannels, bufSize and nptype raise BufferError(1).
C11_UsableOnlyAfterInit ==
    [][ret'.op \in PropertyNames =>
       \A b \in Buffers, name \in PropertyNames \ {"nSamples"} :
          (bufs[b].buf = "none" /\ getattr(b, name)) =>
             IF name = "is_initialized" THEN ret'.exc = "" /\ ret'.res = 0
             ELSE ret' = Raises(name, "BufferError", 1)]_vars

\* C12: the header of an array that initialize made satisfies bufSizeBytes =
\* nChannels * nSamples * itemsize of its type and holds the values given at
\* creation, in every state that initialize, initialize_from_raw, put_data,
\* get_data and writes through returned views reach; and no call changes the
\* header of an array for as long as the array lives.
C12_HeaderWrittenOnce ==
    /\ []((heap["raw"].alive /\ created # NotCreated) =>
            LET hdr == heap["raw"].hdr IN
            /\ hdr.dataType \in DOMAIN types
            /\ hdr.bufSizeBytes =
                  hdr.nChannels * hdr.nSamples * ItemSize(types[hdr.dataType])
            /\ hdr.nChannels = created.nChannels
            /\ hdr.nSamples = created.nSamples
            /\ types[hdr.dataType] = created.nptype
            /\ heap["raw"].size = HeaderSize + hdr.bufSizeBytes)
    /\ [][(heap["raw"].alive /\ heap'["raw"].alive) =>
            /\ heap'["raw"].hdr = heap["raw"].hdr
            /\ heap'["raw"].size = heap["raw"].size]_vars

\* the array initialize made has been attached to by the other Buffer,
\* written by put_data and written through a view
C12_Witness ==
    /\ OnCreated(Producer) /\ OnCreated(Consumer)
    /\ written["raw"] # {}
    /\ ret = Returns("setitem")

\* C13: the array carries the producer's write cursor: in every state one of
\* the fields of its header holds the exclusive upper bound of the columns
\* that completed put_data calls have written (0 when there is none), so
\* that the value never decreases across the producer's writes.
C13_CursorCarried ==
    [](OnCreated(Producer) =>
          \E f \in DOMAIN heap["raw"].hdr :
              heap["raw"].hdr[f] = Cursor(written["raw"]))

\* C14: the view is linear: a put_data(data, start) that returns changes only
\* elements in the columns start .. start + len(data) - 1, with 0 <= start,
\* and no header field; a negative start never makes it write columns
\* counted from the end of the buffer.
C14_LinearNoWrap ==
    [][(ret'.op = "put_data" /\ ret'.exc = "") =>
       \A d \in DataSet, start \in Starts :
          (OnCreated(Producer) /\ put_data(Producer, d, start)) =>
             /\ heap'["raw"].hdr = heap["raw"].hdr
             /\ \A idx \in DOMAIN heap["raw"].body :
                   heap'["raw"].body[idx] # heap["raw"].body[idx] =>
                      LET c == (idx - 1) % bufs[Producer].cols
                      IN  0 <= start /\ start <= c /\ c < PutEnd(d, start)]_vars

\* C15: get_data(start, end) with start < end on a Buffer of nSamples columns
\* returns a view of exactly the columns start .. end - 1 or raises; with
\* start < 0 or end > nSamples it raises, and never returns a clipped,
\* shifted or wrapped window.
C15_GetDataBounds ==
    [][(ret'.op = "get_data" /\ ret'.exc = "") =>
       \A b \in Buffers, start \in -1..MaxSamples, end \in Indices, wprotect \in BOOLEAN :
          (OnCreated(b) /\ start < end /\ get_data(b, start, end, wprotect)) =>
             /\ 0 <= start /\ end <= created.nSamples
             /\ ret'.view.cols = [j \in 1..(end - start) |-> start + j - 1]]_vars

\* C16: on a Buffer whose view is on an array made by initialize(nChannels,
\* nSamples, nptype), whether it made the array or attached to it, the
\* properties nChannels, nSamples and nptype return those three arguments.
C16_Properties ==
    [][ret'.op \in {"nChannels", "nSamples", "nptype"} =>
       \A b \in Buffers, name \in {"nChannels", "nSamples", "nptype"} :
          (OnCreated(b) /\ getattr(b, name)) =>
             /\ ret'.exc = ""
             /\ name = "nChannels" => ret'.res = created.nChannels
             /\ name = "nSamples" => ret'.res = created.nSamples
             /\ name = "nptype" => ret'.str = created.nptype]_vars

\* the calls a reading process makes: attach, availability check, get_data
\* and dropping its view
ConsumerOps == {"initialize_from_raw", "check_availablility", "get_data", "__init__"}

\* C17: while the producer holds the array, a step of the consumer that is an
\* initialize_from_raw, a check_availablility, a get_data or the dropping of
\* its view, taken at any point between the producer's calls or between two
\* element stores of a put_data, changes no header field and no element of
\* the array and nothing of the producer's Buffer, so the producer goes on
\* reading and writing as if the consumer had not been there.
C17_ConsumerFrame ==
    [][(ret'.op \in ConsumerOps /\ inflight' = inflight /\ bufs[Producer].raw = "raw") =>
          /\ heap' = heap
          /\ bufs'[Producer] = bufs[Producer]
          /\ written' = written /\ created' = created]_vars

\* the consumer has dropped its view while a put_data of the producer is
\* half-way through its copy
C17_Witness ==
    /\ OnCreated(Producer)
    /\ inflight.active /\ Len(inflight.todo) < Len(heap["raw"].body)
    /\ ret = Returns("__init__")
    /\ bufs[Consumer] = NewBuffer

\* C18: whatever on_timer, start_streaming and stop_streaming calls a Vis
\* receives, at most one Streamer process on its buffer is alive, so that
\* the buffer never has two writers.
C18_SingleStreamer == Cardinality(vis.alive) <= 1

C19_RemovesOnlyIntermediate ==
    [][ret'.op = "ref" =>
       \A ref_path \in RefPaths, keep \in BOOLEAN, inplace \in BOOLEAN,
          n_channels \in 1..MaxFileChannels, ch_idx_good \in ChannelLists,
          ch_idx_bad \in ChannelLists :
          ref(ref_path, keep, inplace, n_channels, ch_idx_good, ch_idx_bad) =>
             /\ \A f \in Files :
                   (fs[f] # NoFile /\ fs'[f] = NoFile) =>
                      (f = "dat_reference" /\ ref_path = "none" /\ ~keep)
             /\ (ref_path # "none" /\ ret'.exc = "") => fs'[ref_path] # NoFile]_vars

\* C20: make_ref_file with neither ch_idx_good nor ch_idx_bad, on a recording
\* that holds a whole number of rows of n_channels values, returns without
\* error and leaves a reference file with one value per row.
C20_AllChannelsGood ==
    [][ret'.op = "make_ref_file" =>
       \A n_channels \in 1..MaxFileChannels :
          ( /\ fs["dat"] # NoFile /\ ~MemmapRaises(fs["dat"], n_channels)
            /\ make_ref_file(n_channels, NoChannels, NoChannels) )
          => /\ ret'.exc = ""
             /\ fs'["dat_reference"] = fs["dat"] \div n_channels]_vars
====
